---------------------------- MODULE Spec2Model ----------------------------
(***************************************************************************)
(* A model of biogo/boom: the BAM record codec (record.go), the bam1_t     *)
(* wrapper, file handle, fetch loop and Flags (index.go) and the BAMFile / *)
(* SAMFile front ends (bam.go, sam.go).                                    *)
(*                                                                         *)
(* Bytes are the numbers 0..255, byte slices are sequences of bytes, a Go  *)
(* string is the sequence of its bytes.  A panic ends the program: the     *)
(* variable panicked records it and disables every operation.              *)
(***************************************************************************)
EXTENDS Integers, Sequences, FiniteSets, TLC

VARIABLES
    bigEndian,  \* C.bam_is_big_endian() == 1, fixed at process start
    fp,         \* the handle: "nohandle" (nil *BAMFile), "nil" (sf.fp == nil), "open"
    fpBam,      \* sf.fp._type has the TYPE_BAM bit
    finalizer,  \* runtime.SetFinalizer(sf, samClose) is in force
    closes,     \* number of C.samclose calls made on the stream
    stream,     \* the records of the underlying stream, in order
    rpos,       \* number of records samread has consumed
    rec,        \* the caller's current *Record
    hist,       \* what the caller did to rec since it got it
    res,        \* outcome of the last operation, with what it sent to samwrite
    fetch,      \* the bamFetch call in progress, if any
    panicked,   \* a Go panic has unwound the program
    pin,        \* input of the pure function under check
    pout        \* its output

vars == << bigEndian, fp, fpBam, finalizer, closes, stream, rpos, rec,
           hist, res, fetch, panicked, pin, pout >>

handleVars == << fp, fpBam, finalizer, closes, stream, rpos >>

----------------------------------------------------------------------------
(* Bounds of the model.                                                    *)

FlagBits == 11
MaxSeqLen == 3
MaxAuxItems == 2
MaxSetLen == 2
MaxCoord == 4
MaxReadBytes == 8

----------------------------------------------------------------------------
(* Bytes, words and slices.                                                *)

Byte == 0..255

\* ASCII codes of the characters the code names.
Ch == [ A |-> 65, B |-> 66, C |-> 67, H |-> 72, I |-> 73, S |-> 83,
        Z |-> 90, c |-> 99, f |-> 102, i |-> 105, s |-> 115,
        N |-> 78, eq |-> 61, a |-> 97, zero |-> 48, q |-> 113, r |-> 114,
        X |-> 88, Y |-> 89, G |-> 71, T |-> 84, star |-> 42 ]

\* Go's s[from:to] on a zero-based slice (the caller has checked the bounds).
Slice(s, from, to) == SubSeq(s, from + 1, to)

RECURSIVE Pow2(_)
Pow2(n) == IF n = 0 THEN 1 ELSE 2 * Pow2(n - 1)

Bit(x, k) == (x \div Pow2(k)) % 2

RECURSIVE Concat(_)
Concat(ss) == IF ss = << >> THEN << >> ELSE Head(ss) \o Concat(Tail(ss))

RECURSIVE SeqsUpTo(_, _)
SeqsUpTo(S, n) ==
    IF n = 0 THEN { << >> }
    ELSE LET shorter == SeqsUpTo(S, n - 1)
         IN  shorter \cup { Append(t, x) : t \in shorter, x \in S }

\* A 32-bit word is held as the integer its bits spell in two's complement
\* (a uint32 above 2^31 - 1 as the int32 with the same bits): the low bits
\* and the bytes come out the same, and every value fits.

\* encoding/binary: a 32-bit word as four bytes in the byte order `endian`.
PutUint32(big, w) ==
    LET le == << w % 256, (w \div 256) % 256, (w \div 65536) % 256,
                 (w \div 16777216) % 256 >>
    IN  IF big THEN << le[4], le[3], le[2], le[1] >> ELSE le

\* encoding/binary: the 32-bit word four bytes spell in the byte order `endian`.
Uint32(big, b) ==
    LET le == IF big THEN << b[4], b[3], b[2], b[1] >> ELSE b
        top == IF le[4] >= 128 THEN le[4] - 256 ELSE le[4]
    IN  ((top * 256 + le[3]) * 256 + le[2]) * 256 + le[1]

----------------------------------------------------------------------------
(* Flags (index.go).                                                       *)

Paired == 2^0
ProperPair == 2^1
Unmapped == 2^2
MateUnmapped == 2^3
Reverse == 2^4
MateReverse == 2^5
Read1 == 2^6
Read2 == 2^7

flagLetters == << "p", "P", "u", "U", "r", "R", "1", "2", "s", "f", "d" >>

\* f &^ m, for flag words of up to 16 bits (core.flag is a uint16).
AndNot(f, m) ==
    LET keep == { k \in 0..15 : Bit(f, k) = 1 /\ Bit(m, k) = 0 }
        RECURSIVE Sum(_)
        Sum(K) == IF K = {} THEN 0
                  ELSE LET k == CHOOSE x \in K : TRUE
                       IN  Pow2(k) + Sum(K \ {k})
    IN  Sum(keep)

\* A revision that leaves the mate-unmapped bit out of the mask.
pairedMaskNoMateUnmapped == ProperPair + MateReverse + Read1 + Read2

pairedMask == ProperPair + MateUnmapped + MateReverse + Read1 + Read2

FlagsString(f) ==
    LET g == IF Bit(f, 0) = 0 THEN AndNot(f, pairedMask) ELSE f
    IN  [ k \in 1..Len(flagLetters) |->
            IF Bit(g, k - 1) # 0 THEN flagLetters[k] ELSE "-" ]

----------------------------------------------------------------------------
(* The nucleotide tables and the nybble codec (record.go).                 *)

bamNT16TableRev == << 61, 65, 67, 77, 71, 82, 83, 86, 84, 87, 89, 72, 75, 68, 66, 78 >>

bamNT16Table == <<
       15, 15, 15, 15, 15, 15, 15, 15, 15, 15, 15, 15, 15, 15, 15, 15,
       15, 15, 15, 15, 15, 15, 15, 15, 15, 15, 15, 15, 15, 15, 15, 15,
       15, 15, 15, 15, 15, 15, 15, 15, 15, 15, 15, 15, 15, 15, 15, 15,
       1, 2, 4, 8, 15, 15, 15, 15, 15, 15, 15, 15, 15, 0, 15, 15,
       15, 1, 14, 2, 13, 15, 15, 4, 11, 15, 15, 12, 15, 3, 15, 15,
       15, 15, 5, 6, 8, 15, 7, 9, 15, 10, 15, 15, 15, 15, 15, 15,
       15, 1, 14, 2, 13, 15, 15, 4, 11, 15, 15, 12, 15, 3, 15, 15,
       15, 15, 5, 6, 8, 15, 7, 9, 15, 10, 15, 15, 15, 15, 15, 15,
       15, 15, 15, 15, 15, 15, 15, 15, 15, 15, 15, 15, 15, 15, 15, 15,
       15, 15, 15, 15, 15, 15, 15, 15, 15, 15, 15, 15, 15, 15, 15, 15,
       15, 15, 15, 15, 15, 15, 15, 15, 15, 15, 15, 15, 15, 15, 15, 15,
       15, 15, 15, 15, 15, 15, 15, 15, 15, 15, 15, 15, 15, 15, 15, 15,
       15, 15, 15, 15, 15, 15, 15, 15, 15, 15, 15, 15, 15, 15, 15, 15,
       15, 15, 15, 15, 15, 15, 15, 15, 15, 15, 15, 15, 15, 15, 15, 15,
       15, 15, 15, 15, 15, 15, 15, 15, 15, 15, 15, 15, 15, 15, 15, 15,
       15, 15, 15, 15, 15, 15, 15, 15, 15, 15, 15, 15, 15, 15, 15, 15 >>

\* The 16 symbols the reverse table holds.
Symbols == { bamNT16TableRev[k] : k \in 1..16 }

\* A packer that puts the first base of each pair in the low nybble.
encodeNybblesLowFirst(seqBytes) ==
    LET n == Len(seqBytes)
    IN  [ k \in 1..((n + 1) \div 2) |->
            bamNT16Table[seqBytes[2 * k - 1] + 1]
            + (IF 2 * k <= n THEN bamNT16Table[seqBytes[2 * k] + 1] * 16 ELSE 0) ]

\* marshalData's loop: sn[i>>1] |= bamNT16Table[c] << (4 * uint(^i&1)).
encodeNybbles(seqBytes) ==
    LET n == Len(seqBytes)
    IN  [ k \in 1..((n + 1) \div 2) |->
            bamNT16Table[seqBytes[2 * k - 1] + 1] * 16
            + (IF 2 * k <= n THEN bamNT16Table[seqBytes[2 * k] + 1] ELSE 0) ]

\* unmarshalData's loop over the (lQqual+1)>>1 packed bytes sn, filling
\* lQqual symbols: the high nybble first, the low one unless it is past the end.
decodeNybbles(sn, lQqual) ==
    [ k \in 1..lQqual |->
        IF k % 2 = 1 THEN bamNT16TableRev[(sn[(k + 1) \div 2] \div 16) + 1]
        ELSE bamNT16TableRev[(sn[k \div 2] % 16) + 1] ]

----------------------------------------------------------------------------
(* CIGAR operations (record.go).                                           *)

CigarMatch == 0
CigarInsertion == 1
CigarEqual == 7
CigarMismatch == 8

CigarOpType(co) == co % 16
\* co >> 4 on the uint32.
CigarOpLen(co) == IF co < 0 THEN (co \div 16) + 268435456 ELSE co \div 16

\* The packed word of an operation, as the BAM format lays it out.
CigarOp(len, type) == len * 16 + type

----------------------------------------------------------------------------
(* Auxiliary tags (record.go).                                             *)

\* A table that gives every type byte it does not know the width 1.
jumpsSkipsUnknown(t) ==
    IF t \in { Ch.s, Ch.S } THEN 2
    ELSE IF t \in { Ch.i, Ch.I, Ch.f } THEN 4
    ELSE IF t \in { Ch.Z, Ch.H, Ch.B } THEN -1
    ELSE 1

jumps(t) ==
    IF t \in { Ch.A, Ch.c, Ch.C } THEN 1
    ELSE IF t \in { Ch.s, Ch.S } THEN 2
    ELSE IF t \in { Ch.i, Ch.I, Ch.f } THEN 4
    ELSE IF t \in { Ch.Z, Ch.H, Ch.B } THEN -1
    ELSE 0

\* for j, v = range aux[i:] { if v == 0 { break } }: the offset from i of the
\* first zero byte, or of the last byte when there is none.
scanNul(aux, i) ==
    LET zeros == { k \in i..(Len(aux) - 1) : aux[k + 1] = 0 }
    IN  IF zeros = {} THEN Len(aux) - 1 - i
        ELSE (CHOOSE k \in zeros : \A m \in zeros : k <= m) - i

\* A scan that leaves the terminator of a Z or H item inside the item.
parseAuxAtKeepsTerminator(big, aux, i) ==
    LET t == aux[i + 3]
        j == jumps(t)
        Panic == [ kind |-> "panic", item |-> << >>, next |-> i ]
        Cut(w, adv) == IF w >= 0 /\ i + w <= Len(aux)
                       THEN [ kind |-> "item", item |-> Slice(aux, i, i + w),
                              next |-> i + adv ]
                       ELSE Panic
    IN  IF j > 0 THEN Cut(j + 3, j + 3)
        ELSE IF j < 0 THEN
            IF t \in { Ch.Z, Ch.H }
            THEN LET z == scanNul(aux, i) IN Cut(z + 1, z + 1)
            ELSE IF i + 8 > Len(aux) THEN Panic
                 ELSE LET length == Uint32(big, Slice(aux, i + 4, i + 8))
                          w == length * jumps(aux[i + 4]) + 4 + 4
                      IN  Cut(w, w)
        ELSE Panic

\* One turn of parseAux's loop at offset i (zero-based, i+2 < len(aux)):
\* the item cut and the next offset, or a panic.  Slicing past the end of
\* the block, or with a negative width, is a run-time panic.
parseAuxAt(big, aux, i) ==
    LET t == aux[i + 3]
        j == jumps(t)
        Panic == [ kind |-> "panic", item |-> << >>, next |-> i ]
        Cut(w, adv) == IF w >= 0 /\ i + w <= Len(aux)
                       THEN [ kind |-> "item", item |-> Slice(aux, i, i + w),
                              next |-> i + adv ]
                       ELSE Panic
    IN  IF j > 0 THEN Cut(j + 3, j + 3)
        ELSE IF j < 0 THEN
            IF t \in { Ch.Z, Ch.H }
            THEN LET z == scanNul(aux, i) IN Cut(z, z + 1)
            ELSE IF i + 8 > Len(aux) THEN Panic
                 ELSE LET length == Uint32(big, Slice(aux, i + 4, i + 8))
                          w == length * jumps(aux[i + 4]) + 4 + 4
                      IN  Cut(w, w)
        ELSE Panic

\* parseAux from offset i with the items aa cut so far.  A turn that does
\* not advance repeats forever ("loop"): the code never returns.
RECURSIVE parseAuxFrom(_, _, _, _)
parseAuxFrom(big, aux, i, aa) ==
    IF ~(i + 2 < Len(aux)) THEN [ kind |-> "ok", aa |-> aa ]
    ELSE LET st == parseAuxAt(big, aux, i)
         IN  IF st.kind = "panic" THEN [ kind |-> "panic", aa |-> aa ]
             ELSE IF st.next = i THEN [ kind |-> "loop", aa |-> aa ]
             ELSE parseAuxFrom(big, aux, st.next, Append(aa, st.item))

parseAux(big, aux) == parseAuxFrom(big, aux, 0, << >>)

\* buildAux: append(ab, a...) for each item a; nothing is added to an item.
buildAux(aa) == Concat(aa)

----------------------------------------------------------------------------
(* bam1_t and its wrapper bamRecord (index.go).                            *)

\* *b = C.bam1_t{}: every field zero, no data.  data is the allocated
\* buffer (its length is the size of the allocation); data_len and m_data
\* are the struct's own fields.
ZeroBam1 ==
    [ tid |-> 0, pos |-> 0, flag |-> 0, qual |-> 0, l_qname |-> 0,
      n_cigar |-> 0, l_qseq |-> 0, l_aux |-> 0, data_len |-> 0,
      m_data |-> 0, data |-> << >> ]

\* A *Record.  ref tells how much of the pointer chain is there: "nil" (the
\* *Record itself is nil), "nobr" (bamRecord == nil), "nob" (bamRecord.b ==
\* nil), "ok" (a bam1_t is attached, in b).
ZeroRecord ==
    [ ref |-> "nobr", b |-> ZeroBam1, unmarshalled |-> FALSE,
      marshalled |-> FALSE, cigar |-> << >>, nameStr |-> << >>,
      seqBytes |-> << >>, qualScores |-> << >>, auxBytes |-> << >>,
      auxTags |-> << >> ]

NilRecord == [ ZeroRecord EXCEPT !.ref = "nil" ]

\* dataUnsafe: the slice data[0:data_len], length and capacity data_len.
dataUnsafe(b) == Slice(b.data, 0, b.data_len)

\* setDataUnsafe: grow the buffer to exactly len(data) when dataCap() is
\* smaller, then copy data to its start.  data_len and m_data are not
\* assigned.
setDataUnsafe(b, data) ==
    [ b EXCEPT !.data = IF b.m_data < Len(data) THEN data
                        ELSE data \o Slice(b.data, Len(data), Len(b.data)) ]

----------------------------------------------------------------------------
(* Record.marshalData and Record.unmarshalData (record.go).                *)

\* The bytes marshalData returns.
marshalBytes(big, r) ==
    r.nameStr \o << 0 >>
    \o Concat([ k \in 1..Len(r.cigar) |-> PutUint32(big, r.cigar[k]) ])
    \o encodeNybbles(r.seqBytes)
    \o r.qualScores
    \o r.auxBytes

\* The core fields marshalData sets on the way: setLQname(byte(len)+1),
\* setNCigar(uint16(len)), setLQseq(int32(len)), setLAux(int32(len)).
marshalCore(b, r) ==
    [ b EXCEPT !.l_qname = ((Len(r.nameStr) % 256) + 1) % 256,
               !.n_cigar = Len(r.cigar) % 65536,
               !.l_qseq = Len(r.seqBytes),
               !.l_aux = Len(r.auxBytes) ]

\* The offsets unmarshalData slices d at, from the core fields.
unmarshalOffsets(b) ==
    LET e1 == b.l_qname
        e2 == e1 + ((b.n_cigar * 4) % 65536)
        e3 == e2 + ((b.l_qseq + 1) \div 2)
        e4 == e3 + b.l_qseq
        e5 == e4 + b.l_aux
    IN  << e1, e2, e3, e4, e5 >>

\* binary.Read of the n_cigar words that follow the name.
unmarshalCigar(big, b) ==
    LET d == dataUnsafe(b)
    IN  [ k \in 1..b.n_cigar |->
            Uint32(big, Slice(d, b.l_qname + 4 * (k - 1), b.l_qname + 4 * k)) ]

\* unmarshalData panics: a slice expression out of the capacity of d (or
\* with a negative bound), binary.Read short of bytes, or parseAux.
unmarshalPanics(big, b) ==
    LET d == dataUnsafe(b)
        e == unmarshalOffsets(b)
    IN  \/ e[1] - 1 < 0 \/ e[1] - 1 > Len(d)
        \/ e[2] > Len(d)
        \/ e[2] - e[1] < 4 * b.n_cigar
        \/ b.l_qseq < 0
        \/ e[3] > Len(d)
        \/ e[4] > Len(d)
        \/ b.l_aux < 0
        \/ e[5] > Len(d)
        \/ parseAux(big, Slice(d, e[4], e[5])).kind # "ok"

\* The Record unmarshalData leaves when it runs to its end.
unmarshalled(big, r) ==
    LET d == dataUnsafe(r.b)
        e == unmarshalOffsets(r.b)
        aux == Slice(d, e[4], e[5])
    IN  [ r EXCEPT
            !.nameStr = Slice(d, 0, e[1] - 1),
            !.cigar = unmarshalCigar(big, r.b),
            !.seqBytes = decodeNybbles(Slice(d, e[2], e[3]), r.b.l_qseq),
            !.qualScores = Slice(d, e[3], e[4]),
            !.auxBytes = aux,
            !.auxTags = parseAux(big, aux).aa,
            !.unmarshalled = TRUE ]

\* An unmarshalData that does not look at the unmarshalled flag.
unmarshalDataEveryTime(big, r) ==
    IF r.ref \in { "nil", "nobr" } THEN [ kind |-> "panic", r |-> r ]
    ELSE IF r.ref = "nob" THEN [ kind |-> "ok", r |-> r ]
    ELSE IF unmarshalPanics(big, r.b) THEN [ kind |-> "panic", r |-> r ]
    ELSE [ kind |-> "ok", r |-> unmarshalled(big, r) ]

\* unmarshalData on r: "ok" with the Record it leaves, or "panic".
\* self.bamRecord.b on a nil bamRecord is a nil dereference.
unmarshalData(big, r) ==
    IF r.ref \in { "nil", "nobr" } THEN [ kind |-> "panic", r |-> r ]
    ELSE IF r.unmarshalled \/ r.ref = "nob" THEN [ kind |-> "ok", r |-> r ]
    ELSE IF unmarshalPanics(big, r.b) THEN [ kind |-> "panic", r |-> r ]
    ELSE [ kind |-> "ok", r |-> unmarshalled(big, r) ]

\* The summed run lengths of the operations of cigar whose type is in types.
RECURSIVE sumRuns(_, _)
sumRuns(cigar, types) ==
    IF cigar = << >> THEN 0
    ELSE (IF CigarOpType(Head(cigar)) \in types THEN CigarOpLen(Head(cigar)) ELSE 0)
         + sumRuns(Tail(cigar), types)

\* Record.End on the decoded CIGAR list: pos plus the CigarMatch lengths.
RecordEnd(pos, cigar) == pos + sumRuns(cigar, { CigarMatch })

----------------------------------------------------------------------------
(* The stream (the samtools C library, reached through cgo).               *)

RECURSIVE kroundup32(_, _)
kroundup32(n, p) == IF p >= n THEN p ELSE kroundup32(n, 2 * p)

\* A well-formed bam1_t as samread fills it: the payload in the layout of
\* the BAM format, data_len its length, m_data the capacity bam_read1 rounds
\* up to.
MakeBam1(big, tid, pos, flag, name, cigar, seq, qual, aux) ==
    LET r == [ ZeroRecord EXCEPT !.nameStr = name, !.cigar = cigar,
                                 !.seqBytes = seq, !.qualScores = qual,
                                 !.auxBytes = aux ]
        d == marshalBytes(big, r)
        m == kroundup32(Len(d), 1)
    IN  [ marshalCore(ZeroBam1, r) EXCEPT
            !.tid = tid, !.pos = pos, !.flag = flag, !.qual = 30,
            !.data_len = Len(d), !.m_data = m,
            !.data = d \o [ k \in 1..(m - Len(d)) |-> 0 ] ]

\* The on-wire form of the aux items the fixtures use.
AuxFixture(big) ==
    [ A  |-> << Ch.X, Ch.A, Ch.A, Ch.a >>,
      c  |-> << Ch.X, Ch.c, Ch.c, 255 >>,
      C  |-> << Ch.X, Ch.C, Ch.C, 7 >>,
      s  |-> << Ch.X, Ch.s, Ch.s, 254, 255 >>,
      S  |-> << Ch.X, Ch.S, Ch.S, 1, 2 >>,
      i  |-> << Ch.X, Ch.i, Ch.i >> \o PutUint32(big, 1),
      I  |-> << Ch.X, Ch.I, Ch.I, 255, 255, 255, 255 >>,
      f  |-> << Ch.X, Ch.f, Ch.f, 0, 0, 128, 63 >>,
      Z  |-> << Ch.X, Ch.Z, Ch.Z, Ch.a, Ch.q, 0 >>,
      Z0 |-> << Ch.Y, Ch.Z, Ch.Z, 0 >>,
      H  |-> << Ch.X, Ch.H, Ch.H, Ch.zero, Ch.A, 0 >>,
      Bc |-> << Ch.X, Ch.B, Ch.B, Ch.c >> \o PutUint32(big, 2) \o << 1, 255 >>,
      Bs |-> << Ch.Y, Ch.B, Ch.B, Ch.s >> \o PutUint32(big, 1) \o << 3, 0 >>,
      Bi |-> << Ch.X, Ch.B, Ch.B, Ch.i >> \o PutUint32(big, 0) ]

AuxItems(big) == { AuxFixture(big)[k] : k \in DOMAIN AuxFixture(big) }

\* A coordinate-sorted stream: three records on reference 0 and one on
\* reference 1.
Fixture(big) ==
    LET ax == AuxFixture(big)
    IN  << MakeBam1(big, 0, 1, Paired + Read1, << Ch.q >>,
                    << CigarOp(2, CigarMatch) >>,
                    << Ch.A, Ch.C >>, << 30, 31 >>, ax.A \o ax.Z),
           MakeBam1(big, 0, 2, 0, << Ch.r, Ch.q >>,
                    << CigarOp(1, CigarMatch), CigarOp(2, CigarInsertion),
                       CigarOp(1, CigarMatch) >>,
                    << Ch.A, Ch.C, Ch.G, Ch.T >>, << 1, 2, 3, 4 >>, ax.Bs),
           MakeBam1(big, 0, 3, Reverse, << Ch.r >>,
                    << CigarOp(1, CigarEqual), CigarOp(1, CigarMismatch) >>,
                    << Ch.eq, Ch.N, Ch.T >>, << 255, 255, 255 >>, << >>),
           MakeBam1(big, 1, 0, 0, << Ch.q, Ch.q >>,
                    << CigarOp(1, CigarMatch) >>,
                    << Ch.G >>, << 9 >>, ax.i) >>

Streams(big) == { Fixture(big), << >> }

\* samread's count for a record: the 32 bytes of the core and the payload.
recordBytes(b) == 32 + b.data_len

\* What samwrite emits for a bam1_t: its core fields and data[0:data_len].
emitted(b) ==
    [ tid |-> b.tid, pos |-> b.pos, flag |-> b.flag, qual |-> b.qual,
      l_qname |-> b.l_qname, n_cigar |-> b.n_cigar, l_qseq |-> b.l_qseq,
      l_aux |-> b.l_aux, data |-> dataUnsafe(b) ]

\* The alignment's reference interval [pos, end) as the index sees it: the
\* match, sequence-match and sequence-mismatch runs.
alignEnd(big, b) ==
    b.pos + sumRuns(unmarshalCigar(big, b), { CigarMatch, CigarEqual, CigarMismatch })

\* Whether [pos, end) of b shares a position with [beg, end).
overlaps(big, b, beg, end) ==
    \E x \in beg..(end - 1) : b.pos <= x /\ x < alignEnd(big, b)

\* bam_iter_query: the stream positions bam_iter_read will deliver, in
\* stream order.
RECURSIVE iterQueryFrom(_, _, _, _, _, _)
iterQueryFrom(big, s, k, tid, beg, end) ==
    IF k > Len(s) THEN << >>
    ELSE (IF s[k].tid = tid /\ overlaps(big, s[k], beg, end) THEN << k >> ELSE << >>)
         \o iterQueryFrom(big, s, k + 1, tid, beg, end)

bamIterQuery(big, s, tid, beg, end) == iterQueryFrom(big, s, 1, tid, beg, end)

----------------------------------------------------------------------------
(* The state machine: a handle, the caller's record, and a fetch.          *)

NoHist == [ origin |-> "none", mutated |-> FALSE, raw |-> ZeroBam1 ]

\* op: the operation; err: the error it returned; n: the integer it
\* returned; pre: the state of the handle when it was called; marshal:
\* whether it called marshalData; flag: the record's marshalled flag when
\* it was called; emitted: the records it passed to samwrite.
Result(op, err, n, pre, marshal) ==
    [ op |-> op, err |-> err, n |-> n, pre |-> pre, marshal |-> marshal,
      flag |-> rec.marshalled, emitted |-> << >> ]

NoResult ==
    [ op |-> "none", err |-> "nil", n |-> 0, pre |-> "nohandle",
      marshal |-> FALSE, flag |-> FALSE, emitted |-> << >> ]

\* The last bamFetch call.  pc: "idle", or "loop" inside its for loop.
\* idx: the index's pointer, "ok" or "nil".
\* iter: the positions the iterator has still to deliver; created,
\* destroyed: bam_iter_query and bam_iter_destroy calls; visited: the stream
\* positions fn was called on, in call order; ret, err: the results;
\* stopped: fn returned true; allocFailed: newBamRecord failed.
IdleFetch ==
    [ pc |-> "idle", idx |-> "ok", tid |-> 0, beg |-> 0, end |-> 0, iter |-> << >>,
      created |-> 0, destroyed |-> 0, visited |-> << >>, ret |-> 0,
      err |-> "nil", stopped |-> FALSE, allocFailed |-> FALSE ]

MainIdle ==
    /\ fp = "nohandle" /\ fpBam = FALSE /\ finalizer = FALSE /\ closes = 0
    /\ stream = << >> /\ rpos = 0 /\ rec = NilRecord /\ hist = NoHist
    /\ res = NoResult /\ fetch = IdleFetch
    /\ panicked = FALSE

mainVars == << fp, fpBam, finalizer, closes, stream, rpos, rec, hist, res,
               fetch, panicked >>

\* After OpenBAM / OpenSAM / CreateBAM: samOpen has wrapped what samopen
\* returned (a stream, or NULL) and set the finalizer; or the caller holds
\* a nil handle.
Init ==
    /\ bigEndian \in BOOLEAN
    /\ fp \in { "open", "nil", "nohandle" }
    /\ fpBam \in (IF fp = "open" THEN BOOLEAN ELSE { FALSE })
    /\ finalizer = (fp # "nohandle")
    /\ closes = 0
    /\ stream \in (IF fp = "open" THEN Streams(bigEndian) ELSE { << >> })
    /\ rpos = 0
    /\ rec = NilRecord
    /\ hist = NoHist
    /\ res = NoResult
    /\ fetch = IdleFetch
    /\ panicked = FALSE
    /\ pin = << >>
    /\ pout = << >>

Ready == ~panicked /\ fetch.pc = "idle"

PanicIn(op) ==
    /\ panicked' = TRUE
    /\ res' = Result(op, "panic", 0, fp, FALSE)

\* BAMFile.Read / SAMFile.Read over samRead.
Read ==
    /\ Ready
    /\ UNCHANGED << bigEndian, fp, fpBam, finalizer, closes, stream, fetch, pin, pout >>
    /\ IF fp = "nohandle"
       THEN PanicIn("Read") /\ UNCHANGED << rec, hist, rpos >>
       ELSE /\ UNCHANGED panicked
            /\ IF fp = "nil"
               THEN /\ rec' = [ ZeroRecord EXCEPT !.marshalled = TRUE ]
                    /\ hist' = [ NoHist EXCEPT !.origin = "readerr" ]
                    /\ res' = Result("Read", "valueIsNil", 0, fp, FALSE)
                    /\ UNCHANGED rpos
               ELSE \E allocated \in BOOLEAN :
                    IF ~allocated
                    THEN /\ rec' = [ ZeroRecord EXCEPT !.marshalled = TRUE ]
                         /\ hist' = [ NoHist EXCEPT !.origin = "readerr" ]
                         /\ res' = Result("Read", "couldNotAllocate", 0, fp, FALSE)
                         /\ UNCHANGED rpos
                    ELSE IF rpos < Len(stream)
                    THEN /\ rec' = [ ZeroRecord EXCEPT !.ref = "ok", !.marshalled = TRUE,
                                                       !.b = stream[rpos + 1] ]
                         /\ hist' = [ origin |-> "read", mutated |-> FALSE,
                                      raw |-> stream[rpos + 1] ]
                         /\ res' = Result("Read", "nil", recordBytes(stream[rpos + 1]), fp, FALSE)
                         /\ rpos' = rpos + 1
                    ELSE /\ rec' = [ ZeroRecord EXCEPT !.ref = "ok", !.marshalled = TRUE ]
                         /\ hist' = [ NoHist EXCEPT !.origin = "eof" ]
                         /\ res' = Result("Read", "EOF", -1, fp, FALSE)
                         /\ UNCHANGED rpos

\* NewRecord.
NewRecord ==
    /\ Ready
    /\ \E allocated \in BOOLEAN :
         /\ rec' = IF allocated THEN [ ZeroRecord EXCEPT !.ref = "ok" ] ELSE NilRecord
         /\ res' = Result("NewRecord", IF allocated THEN "nil" ELSE "couldNotAllocate",
                          0, fp, FALSE)
    /\ hist' = [ NoHist EXCEPT !.origin = "new" ]
    /\ UNCHANGED << bigEndian, handleVars, fetch, panicked, pin, pout >>

\* Name, Seq, Quality, Cigar, Tag, Tags, RefID: each starts with
\* unmarshalData and then reads a field.
Accessor ==
    /\ Ready
    /\ hist.origin # "none"
    /\ LET u == unmarshalData(bigEndian, rec)
       IN  IF u.kind = "panic"
           THEN PanicIn("Accessor") /\ UNCHANGED rec
           ELSE /\ rec' = u.r
                /\ res' = Result("Accessor", "nil", 0, fp, FALSE)
                /\ UNCHANGED panicked
    /\ UNCHANGED << bigEndian, handleVars, hist, fetch, pin, pout >>

\* Record.End: Cigar() (which decodes), then pos() plus the match lengths.
End ==
    /\ Ready
    /\ hist.origin # "none"
    /\ LET u == unmarshalData(bigEndian, rec)
       IN  IF u.kind = "panic" \/ rec.ref # "ok"
           THEN PanicIn("End") /\ UNCHANGED rec
           ELSE /\ rec' = u.r
                /\ res' = Result("End", "nil", RecordEnd(u.r.b.pos, u.r.cigar), fp, FALSE)
                /\ UNCHANGED panicked
    /\ UNCHANGED << bigEndian, handleVars, hist, fetch, pin, pout >>

\* What the caller passes to the mutators.
SetSeqInputs == SeqsUpTo({ Ch.C }, MaxSetLen) \ { << >> }
SetQualityInputs == SeqsUpTo({ 40 }, MaxSetLen) \ { << >> }
SetFlagsInputs == { Paired + Reverse }

\* A SetSeq that forgets the flag.
setSeqKeepsFlag(r, s) == [ r EXCEPT !.seqBytes = s ]

setSeq(r, s) == [ r EXCEPT !.seqBytes = s, !.marshalled = FALSE ]

setQuality(r, q) == [ r EXCEPT !.qualScores = q, !.marshalled = FALSE ]

\* bamRecord.setFlag: C.setFlag(br.b, C.uint16_t(flags)).
setFlag(r, fl) == [ r EXCEPT !.b.flag = fl % 65536 ]

\* Record.SetSeq.
SetSeq ==
    /\ Ready
    /\ hist.origin # "none"
    /\ IF rec.ref = "nil"
       THEN PanicIn("SetSeq") /\ UNCHANGED << rec, hist >>
       ELSE /\ \E s \in SetSeqInputs :
                 rec' = setSeq(rec, s)
            /\ hist' = [ hist EXCEPT !.mutated = TRUE ]
            /\ res' = Result("SetSeq", "nil", 0, fp, FALSE)
            /\ UNCHANGED panicked
    /\ UNCHANGED << bigEndian, handleVars, fetch, pin, pout >>

\* Record.SetQuality.
SetQuality ==
    /\ Ready
    /\ hist.origin # "none"
    /\ IF rec.ref = "nil"
       THEN PanicIn("SetQuality") /\ UNCHANGED << rec, hist >>
       ELSE /\ \E q \in SetQualityInputs :
                 rec' = setQuality(rec, q)
            /\ hist' = [ hist EXCEPT !.mutated = TRUE ]
            /\ res' = Result("SetQuality", "nil", 0, fp, FALSE)
            /\ UNCHANGED panicked
    /\ UNCHANGED << bigEndian, handleVars, fetch, pin, pout >>

\* Record.SetFlags over bamRecord.setFlag: the flag goes to core.flag.
SetFlags ==
    /\ Ready
    /\ hist.origin # "none"
    /\ IF rec.ref # "ok"
       THEN PanicIn("SetFlags") /\ UNCHANGED << rec, hist >>
       ELSE /\ \E fl \in SetFlagsInputs :
                 rec' = setFlag(rec, fl)
            /\ hist' = [ hist EXCEPT !.mutated = TRUE ]
            /\ res' = Result("SetFlags", "nil", 0, fp, FALSE)
            /\ UNCHANGED panicked
    /\ UNCHANGED << bigEndian, handleVars, fetch, pin, pout >>

\* A Write that marshals whatever the flag says.
remarshalAlways(big, r) ==
    [ called |-> TRUE,
      r |-> [ r EXCEPT !.b = setDataUnsafe(marshalCore(r.b, r), marshalBytes(big, r)),
                       !.marshalled = TRUE ] ]

\* Write's "if r.marshalled == false" block: the Record it leaves, and
\* whether marshalData was called.
remarshal(big, r) ==
    IF r.marshalled THEN [ called |-> FALSE, r |-> r ]
    ELSE [ called |-> TRUE,
           r |-> [ r EXCEPT !.b = setDataUnsafe(marshalCore(r.b, r), marshalBytes(big, r)),
                            !.marshalled = TRUE ] ]

\* BAMFile.Write / SAMFile.Write over samWrite.
Write ==
    /\ Ready
    /\ hist.origin # "none"
    /\ UNCHANGED << bigEndian, handleVars, hist, fetch, pin, pout >>
    /\ IF \/ rec.ref = "nil"
          \/ ~rec.marshalled /\ rec.ref # "ok"
          \/ fp = "nohandle"
          \/ fp = "open" /\ rec.ref = "nobr"
       THEN PanicIn("Write") /\ UNCHANGED rec
       ELSE LET m == remarshal(bigEndian, rec)
            IN  /\ rec' = m.r
                /\ UNCHANGED panicked
                /\ IF fp = "nil" \/ rec.ref = "nob"
                   THEN res' = Result("Write", "valueIsNil", 0, fp, m.called)
                   ELSE res' = [ Result("Write", "nil", recordBytes(m.r.b), fp, m.called)
                                 EXCEPT !.emitted = << emitted(m.r.b) >> ]

\* A samClose that leaves sf.fp pointing at the stream it has closed.
samCloseKeepsPointer(fpState) ==
    IF fpState = "nil"
    THEN [ err |-> "valueIsNil", fp |-> "nil", released |-> FALSE ]
    ELSE [ err |-> "nil", fp |-> "open", released |-> TRUE ]

\* samFile.samClose on a handle whose sf.fp is fpState: the error, sf.fp
\* afterwards, and whether it went past the guard (clearing the finalizer
\* and calling C.samclose).
samClose(fpState) ==
    IF fpState = "nil"
    THEN [ err |-> "valueIsNil", fp |-> "nil", released |-> FALSE ]
    ELSE [ err |-> "nil", fp |-> "nil", released |-> TRUE ]

\* BAMFile.Close / SAMFile.Close over samClose.
Close ==
    /\ Ready
    /\ IF fp = "nohandle"
       THEN /\ res' = Result("Close", "nil", 0, fp, FALSE)
            /\ UNCHANGED << fp, finalizer, closes >>
       ELSE LET c == samClose(fp)
            IN  /\ finalizer' = (finalizer /\ ~c.released)
                /\ closes' = closes + (IF c.released THEN 1 ELSE 0)
                /\ fp' = c.fp
                /\ res' = Result("Close", c.err, 0, fp, FALSE)
    /\ UNCHANGED << bigEndian, fpBam, stream, rpos, rec, hist, fetch, panicked,
                    pin, pout >>

\* The finalizer samOpen sets: the runtime, finding the handle unreachable,
\* takes the finalizer off it and calls samClose.
Finalizer ==
    /\ Ready
    /\ finalizer
    /\ LET c == samClose(fp)
       IN  /\ finalizer' = FALSE
           /\ closes' = closes + (IF c.released THEN 1 ELSE 0)
           /\ fp' = c.fp
           /\ res' = Result("Finalizer", c.err, 0, fp, FALSE)
    /\ UNCHANGED << bigEndian, fpBam, stream, rpos, rec, hist, fetch, panicked,
                    pin, pout >>

\* A bamFetch that does not look at the index.
fetchPreconditionSkipsIndex(fpState, idx, isBam) ==
    IF fpState = "nil" THEN "valueIsNil"
    ELSE IF ~isBam THEN "notBamFile"
    ELSE "nil"

\* bamFetch's two guards: the error it returns before it creates the
\* iterator, or "nil" when it goes on.
fetchPrecondition(fpState, idx, isBam) ==
    IF fpState = "nil" \/ idx = "nil" THEN "valueIsNil"
    ELSE IF ~isBam THEN "notBamFile"
    ELSE "nil"

\* BAMFile.Fetch over bamFetch, up to the creation of the iterator.
FetchCall ==
    /\ Ready
    /\ UNCHANGED << bigEndian, handleVars, rec, hist, pin, pout >>
    /\ \E idx \in { "ok", "nil" }, tid \in 0..1, beg \in 0..MaxCoord :
       \E end \in beg..MaxCoord :
         LET call == [ IdleFetch EXCEPT !.idx = idx, !.tid = tid, !.beg = beg,
                                        !.end = end ]
             err == fetchPrecondition(fp, idx, fpBam)
         IN  IF fp = "nohandle"
             THEN PanicIn("Fetch") /\ UNCHANGED fetch
             ELSE /\ UNCHANGED panicked
                  /\ IF err # "nil"
                     THEN /\ fetch' = [ call EXCEPT !.err = err ]
                          /\ res' = Result("Fetch", err, 0, fp, FALSE)
                     ELSE /\ fetch' = [ call EXCEPT
                                          !.pc = "loop", !.created = 1,
                                          !.iter = bamIterQuery(bigEndian, stream, tid, beg, end) ]
                          /\ res' = Result("FetchCall", "nil", 0, fp, FALSE)

\* A loop that leaves after the first record whatever fn returns.
fetchTurnLeavesAfterFirst(f, allocated, done) ==
    IF ~allocated
    THEN [ f EXCEPT !.pc = "idle", !.err = "couldNotAllocate", !.allocFailed = TRUE ]
    ELSE IF f.iter = << >>
    THEN [ f EXCEPT !.pc = "idle", !.ret = -1, !.destroyed = @ + 1 ]
    ELSE [ f EXCEPT !.pc = "idle", !.ret = recordBytes(stream[Head(f.iter)]),
                    !.stopped = done, !.iter = Tail(@),
                    !.visited = Append(@, Head(f.iter)), !.destroyed = @ + 1 ]

\* A loop that notes fn's answer and goes on all the same.
fetchTurnIgnoresDone(f, allocated, done) ==
    IF ~allocated
    THEN [ f EXCEPT !.pc = "idle", !.err = "couldNotAllocate", !.allocFailed = TRUE ]
    ELSE IF f.iter = << >>
    THEN [ f EXCEPT !.pc = "idle", !.ret = -1, !.destroyed = @ + 1 ]
    ELSE [ f EXCEPT !.ret = recordBytes(stream[Head(f.iter)]), !.iter = Tail(@),
                    !.stopped = @ \/ done,
                    !.visited = Append(@, Head(f.iter)) ]

\* One turn of bamFetch's loop on the call f: newBamRecord, bam_iter_read,
\* fn(br); and, when the turn leaves the loop, bam_iter_destroy and the
\* return.  allocated: newBamRecord got its memory; done: what fn returns.
fetchTurn(f, allocated, done) ==
    IF ~allocated
    THEN [ f EXCEPT !.pc = "idle", !.err = "couldNotAllocate", !.allocFailed = TRUE ]
    ELSE IF f.iter = << >>
    THEN [ f EXCEPT !.pc = "idle", !.ret = -1, !.destroyed = @ + 1 ]
    ELSE IF done
    THEN [ f EXCEPT !.pc = "idle", !.ret = recordBytes(stream[Head(f.iter)]),
                    !.stopped = TRUE, !.iter = Tail(@),
                    !.visited = Append(@, Head(f.iter)), !.destroyed = @ + 1 ]
    ELSE [ f EXCEPT !.ret = recordBytes(stream[Head(f.iter)]), !.iter = Tail(@),
                    !.visited = Append(@, Head(f.iter)) ]

\* A turn of bamFetch's loop.  bam_iter_read leaves the stream positioned
\* after the record it delivered.
FetchIter ==
    /\ ~panicked
    /\ fetch.pc = "loop"
    /\ UNCHANGED << bigEndian, fp, fpBam, finalizer, closes, stream, rec, hist,
                    panicked, pin, pout >>
    /\ \E allocated \in BOOLEAN, done \in BOOLEAN :
         /\ fetch' = fetchTurn(fetch, allocated, done)
         /\ rpos' = IF allocated /\ fetch.iter # << >> THEN Head(fetch.iter) ELSE rpos
         /\ res' = Result(IF fetch'.pc = "idle" THEN "Fetch" ELSE "FetchIter",
                          fetch'.err, fetch'.ret, fp, FALSE)

\* A caller that reads, builds, inspects, mutates and writes records.
Next ==
    \/ Read
    \/ NewRecord
    \/ Accessor
    \/ End
    \/ SetSeq
    \/ SetQuality
    \/ SetFlags
    \/ Write
    \/ Close

Spec == Init /\ [][Next]_vars

\* A caller that reads, writes back and fetches.
NextFetch ==
    \/ Read
    \/ Write
    \/ Close
    \/ FetchCall
    \/ FetchIter

SpecFetch == Init /\ [][NextFetch]_vars

\* A caller that reads, writes back, fetches and closes, and a runtime that
\* may run the finalizer.
NextRelease ==
    \/ Read
    \/ Write
    \/ Close
    \/ FetchCall
    \/ FetchIter
    \/ Finalizer

SpecRelease == Init /\ [][NextRelease]_vars

----------------------------------------------------------------------------
(* Flags.String on every flag word of FlagBits bits.                       *)

NotRun == [ done |-> FALSE, v |-> << >> ]

InitFlags ==
    /\ MainIdle
    /\ bigEndian = FALSE
    /\ pin \in 0..(Pow2(FlagBits) - 1)
    /\ pout = NotRun

FlagsStringCall ==
    /\ ~pout.done
    /\ pout' = [ done |-> TRUE, v |-> FlagsString(pin) ]
    /\ UNCHANGED << bigEndian, mainVars, pin >>

SpecFlags == InitFlags /\ [][FlagsStringCall]_vars

----------------------------------------------------------------------------
(* The nybble codec on sequences of up to MaxSeqLen bytes.                 *)

\* Sequences of the 16 symbols, every single byte, and mixtures of symbols
\* with bytes outside the 16.
SeqInputs ==
    SeqsUpTo(Symbols, MaxSeqLen)
    \cup { << c >> : c \in Byte }
    \cup SeqsUpTo({ Ch.A, Ch.a, Ch.zero, Ch.X, Ch.star }, MaxSeqLen)

InitSeq ==
    /\ MainIdle
    /\ bigEndian = FALSE
    /\ pin \in SeqInputs
    /\ pout = NotRun

\* marshalData's packing of seqBytes, then unmarshalData's unpacking of the
\* packed bytes with l_qseq = len(seqBytes).
NybbleRoundTrip ==
    /\ ~pout.done
    /\ LET sn == encodeNybbles(pin)
       IN  pout' = [ done |-> TRUE,
                     v |-> [ sn |-> sn, seq |-> decodeNybbles(sn, Len(pin)) ] ]
    /\ UNCHANGED << bigEndian, mainVars, pin >>

SpecSeq == InitSeq /\ [][NybbleRoundTrip]_vars

----------------------------------------------------------------------------
(* parseAux and buildAux on well-formed aux blocks of up to MaxAuxItems    *)
(* items.                                                                  *)

InitAux ==
    /\ MainIdle
    /\ bigEndian \in BOOLEAN
    /\ pin \in { Concat(items) : items \in SeqsUpTo(AuxItems(bigEndian), MaxAuxItems) }
    /\ pout = NotRun

AuxRoundTrip ==
    /\ ~pout.done
    /\ LET p == parseAux(bigEndian, pin)
       IN  pout' = [ done |-> TRUE,
                     v |-> [ kind |-> p.kind, aa |-> p.aa, built |-> buildAux(p.aa) ] ]
    /\ UNCHANGED << bigEndian, mainVars, pin >>

SpecAux == InitAux /\ [][AuxRoundTrip]_vars

----------------------------------------------------------------------------
(* samRead on every outcome of samread.                                    *)

\* What samread can hand back (the library behind the cgo call): a record
\* of cn > 0 bytes, -1 at the end of the stream, a count below -1 for a
\* truncated or corrupt record; and whether the call leaves an errno, which
\* cgo returns as the second value.
SamreadOutcomes ==
    [ kind : { "record" }, cn : 33..(32 + MaxReadBytes), errno : BOOLEAN ]
    \cup [ kind : { "exhausted" }, cn : { -1 }, errno : BOOLEAN ]
    \cup [ kind : { "broken" }, cn : { -2, -3, -4 }, errno : BOOLEAN ]

\* samFile.samRead: the count, the bamRecord ("nil" or "ok") and the error.
\* cn, err := C.samread(...) leaves errno in err; n < 0 replaces it by
\* io.EOF.
samRead(fpState, allocated, cn, errno) ==
    IF fpState = "nil" THEN [ n |-> 0, br |-> "nil", err |-> "valueIsNil" ]
    ELSE IF ~allocated THEN [ n |-> 0, br |-> "nil", err |-> "couldNotAllocate" ]
    ELSE [ n |-> cn, br |-> "ok",
           err |-> IF cn < 0 THEN "EOF"
                   ELSE IF errno THEN "errno" ELSE "nil" ]

InitRead ==
    /\ MainIdle
    /\ bigEndian = FALSE
    /\ pin \in [ out : SamreadOutcomes, fp : { "open", "nil" }, allocated : BOOLEAN ]
    /\ pout = NotRun

\* BAMFile.Read / SAMFile.Read: samRead, wrapped.
ReadCall ==
    /\ ~pout.done
    /\ pout' = [ done |-> TRUE,
                 v |-> samRead(pin.fp, pin.allocated, pin.out.cn, pin.out.errno) ]
    /\ UNCHANGED << bigEndian, mainVars, pin >>

SpecRead == InitRead /\ [][ReadCall]_vars

----------------------------------------------------------------------------
(* The field accessors of Record on records in every state of the pointer  *)
(* chain.                                                                  *)

\* Accessors that go straight to a bamRecord helper.
CoreAccessors ==
    { "Start", "Len", "Score", "Flags", "Strand", "NextRefID", "NextStart" }

\* Accessors that call unmarshalData and return a cached field.
DecodingAccessors == { "Name", "Seq", "Quality", "Cigar", "Tags" }

\* Accessors that call unmarshalData (End through Cigar) and then a
\* bamRecord helper.
DecodingCoreAccessors == { "RefID", "End" }

\* A bamRecord helper (tid, pos, qual, flag, lQseq, mtid, mpos) on r: a nil
\* receiver is dereferenced by br.b; a nil br.b is panic(valueIsNil).
coreOutcome(r) ==
    IF r.ref \in { "nil", "nobr" } THEN "nilDeref"
    ELSE IF r.ref = "nob" THEN "valueIsNil"
    ELSE "value"

\* unmarshalData on r: self.bamRecord.b dereferences a nil bamRecord; a nil
\* b returns at once; otherwise the decode runs, and may panic on a slice
\* bound.
decodeOutcome(big, r) ==
    IF r.ref \in { "nil", "nobr" } THEN "nilDeref"
    ELSE IF unmarshalData(big, r).kind = "panic" THEN "bounds"
    ELSE "value"

\* How the accessor called name ends on r: "value" (it returns), or the
\* panic it raises.
accessorOutcome(name, big, r) ==
    IF name \in CoreAccessors THEN coreOutcome(r)
    ELSE IF name \in DecodingAccessors THEN decodeOutcome(big, r)
    ELSE IF decodeOutcome(big, r) # "value" THEN decodeOutcome(big, r)
    ELSE coreOutcome(r)

\* Records as the package can hold them: no bamRecord (a failed Read), a
\* bamRecord whose bam1_t is nil (what bamRecordFree leaves), a zeroed
\* bam1_t (NewRecord), and the records of a stream.
AccessRecords(big) ==
    { ZeroRecord, [ ZeroRecord EXCEPT !.ref = "nob" ],
      [ ZeroRecord EXCEPT !.ref = "ok" ] }
    \cup { [ ZeroRecord EXCEPT !.ref = "ok", !.marshalled = TRUE,
                               !.b = Fixture(big)[k] ] :
           k \in 1..Len(Fixture(big)) }

InitAccessors ==
    /\ MainIdle
    /\ bigEndian \in BOOLEAN
    /\ pin \in [ name : CoreAccessors \cup DecodingAccessors \cup DecodingCoreAccessors,
                 r : AccessRecords(bigEndian) ]
    /\ pout = NotRun

AccessorCall ==
    /\ ~pout.done
    /\ pout' = [ done |-> TRUE, v |-> accessorOutcome(pin.name, bigEndian, pin.r) ]
    /\ UNCHANGED << bigEndian, mainVars, pin >>

SpecAccessors == InitAccessors /\ [][AccessorCall]_vars

----------------------------------------------------------------------------
(* Record.Tag on the parsed items of well-formed aux blocks.               *)

\* Blocks of up to MaxAuxItems items.
AuxBlocks(big) == { Concat(items) : items \in SeqsUpTo(AuxItems(big), MaxAuxItems) }

\* Labels the caller asks for: two bytes, and a label followed by its type
\* byte.
TagInputs ==
    { << Ch.X, Ch.B >>, << Ch.Y, Ch.Z >>, << Ch.X, Ch.Z >>, << Ch.q, Ch.q >>,
      << Ch.X, Ch.B, Ch.B >>, << Ch.X, Ch.Z, Ch.Z >> }

\* The loop of Record.Tag over auxTags: the first item a with
\* bytes.Compare(a[:2], tag) == 0 and true, or nil and false.
recordTag(auxTags, tag) ==
    LET hits == { k \in 1..Len(auxTags) : Slice(auxTags[k], 0, 2) = tag }
    IN  IF hits = {} THEN [ v |-> << >>, ok |-> FALSE ]
        ELSE [ v |-> auxTags[CHOOSE k \in hits : \A m \in hits : k <= m],
               ok |-> TRUE ]

InitTag ==
    /\ MainIdle
    /\ bigEndian \in BOOLEAN
    /\ pin \in [ aux : AuxBlocks(bigEndian), tag : TagInputs ]
    /\ pout = NotRun

\* Record.Tag on a record whose aux block is pin.aux.
TagCall ==
    /\ ~pout.done
    /\ pout' = [ done |-> TRUE,
                 v |-> recordTag(parseAux(bigEndian, pin.aux).aa, pin.tag) ]
    /\ UNCHANGED << bigEndian, mainVars, pin >>

SpecTag == InitTag /\ [][TagCall]_vars

----------------------------------------------------------------------------
(* Aux.Value on the items parseAux cuts from well-formed aux blocks.       *)

\* Where parseAux cut its items: the offset s and length n of each, in
\* order.  An item is the slice aux[s : s+n], whose capacity runs to the
\* end of aux.
RECURSIVE parseAuxSpans(_, _, _, _)
parseAuxSpans(big, aux, i, ss) ==
    IF ~(i + 2 < Len(aux)) THEN ss
    ELSE LET st == parseAuxAt(big, aux, i)
         IN  IF st.kind = "panic" \/ st.next = i THEN ss
             ELSE parseAuxSpans(big, aux, st.next,
                                Append(ss, [ s |-> i, n |-> Len(st.item) ]))

\* encoding/binary: the 16-bit word two bytes spell.
Uint16(big, b) == IF big THEN b[1] * 256 + b[2] ELSE b[2] * 256 + b[1]

\* int8(x), int16(x): the signed reading of a byte, of a 16-bit word.
Int8(x) == IF x >= 128 THEN x - 256 ELSE x
Int16(x) == IF x >= 32768 THEN x - 65536 ELSE x

\* encoding/hex: the value of a hex digit, or -1.
fromHexChar(c) ==
    IF c \in 48..57 THEN c - 48
    ELSE IF c \in 97..102 THEN c - 97 + 10
    ELSE IF c \in 65..70 THEN c - 65 + 10
    ELSE -1

\* Aux.Value on self = aux[s : s+n]: the kind of Go value returned and the
\* value (numbers as integers, a float32 as its 32 bits, text and byte
\* slices as byte sequences, arrays as sequences), or a panic.  The index
\* self[k] needs k < len(self); the slice self[a:b] needs b <= cap(self).
auxValue(big, aux, s, n) ==
    LET cap == Len(aux) - s
        at(k) == aux[s + k + 1]
        cut(a, b) == Slice(aux, s + a, s + b)
        Panic == [ kind |-> "panic", v |-> << >> ]
        Val(kind, v) == [ kind |-> kind, v |-> v ]
        t == at(2)
        Word16(kind, signed) ==
            IF cap < 6 THEN Panic
            ELSE LET w == Uint16(big, cut(4, 6))
                 IN  Val(kind, IF signed THEN Int16(w) ELSE w)
        Word32(kind) ==
            IF cap < 8 THEN Panic ELSE Val(kind, Uint32(big, cut(4, 8)))
        Array(kind, width, conv(_)) ==
            LET length == Uint32(big, cut(4, 8))
            IN  IF length < 0 \/ n < 8 \/ n - 8 < width * length THEN Panic
                ELSE Val(kind, [ j \in 1..length |->
                                   conv(cut(8 + width * (j - 1), 8 + width * j)) ])
    IN  IF n < 3 THEN Panic
        ELSE IF t \in { Ch.A, Ch.c, Ch.C }
        THEN IF n < 4 THEN Panic
             ELSE IF t = Ch.A THEN Val("byte", at(3))
             ELSE IF t = Ch.c THEN Val("int8", Int8(at(3)))
             ELSE Val("uint8", at(3))
        ELSE IF t = Ch.s THEN Word16("int16", TRUE)
        ELSE IF t = Ch.S THEN Word16("uint16", FALSE)
        ELSE IF t = Ch.i THEN Word32("int32")
        ELSE IF t = Ch.I THEN Word32("uint32")
        ELSE IF t = Ch.f THEN Word32("float32")
        ELSE IF t = Ch.Z THEN Val("string", cut(3, n))
        ELSE IF t = Ch.H
        THEN LET h == cut(3, n)
             IN  IF Len(h) % 2 = 1 \/ \E j \in 1..Len(h) : fromHexChar(h[j]) < 0
                 THEN Panic
                 ELSE Val("bytes", [ j \in 1..(Len(h) \div 2) |->
                                       fromHexChar(h[2 * j - 1]) * 16
                                       + fromHexChar(h[2 * j]) ])
        ELSE IF t = Ch.B
        THEN IF cap < 8 \/ n < 4 THEN Panic
             ELSE LET sub == at(3)
                      W16(b) == Uint16(big, b)
                      I16(b) == Int16(Uint16(big, b))
                      W32(b) == Uint32(big, b)
                  IN  IF sub = Ch.c
                      THEN Val("[]int8", [ j \in 1..(n - 4) |-> Int8(at(3 + j)) ])
                      ELSE IF sub = Ch.C THEN Val("[]uint8", cut(4, n))
                      ELSE IF sub = Ch.s THEN Array("[]int16", 2, I16)
                      ELSE IF sub = Ch.S THEN Array("[]uint16", 2, W16)
                      ELSE IF sub = Ch.i THEN Array("[]int32", 4, W32)
                      ELSE IF sub = Ch.I THEN Array("[]uint32", 4, W32)
                      ELSE IF sub = Ch.f THEN Array("[]float32", 4, W32)
                      ELSE Panic
        ELSE Panic

InitValue ==
    /\ MainIdle
    /\ bigEndian \in BOOLEAN
    /\ pin \in UNION { [ aux : { a }, k : 1..Len(parseAux(bigEndian, a).aa) ] :
                       a \in AuxBlocks(bigEndian) }
    /\ pout = NotRun

\* Value() on the k-th item of Tags() of a record whose aux block is
\* pin.aux.
ValueCall ==
    /\ ~pout.done
    /\ LET sp == parseAuxSpans(bigEndian, pin.aux, 0, << >>)[pin.k]
       IN  pout' = [ done |-> TRUE,
                     v |-> auxValue(bigEndian, pin.aux, sp.s, sp.n) ]
    /\ UNCHANGED << bigEndian, mainVars, pin >>

SpecValue == InitValue /\ [][ValueCall]_vars

----------------------------------------------------------------------------
(* parseAux on aux blocks, well-formed and not: where it cuts, where it    *)
(* stops.                                                                  *)

\* What may follow the well-formed items of a block: nothing; items with a
\* type byte outside the table; two stray bytes; B items whose count is
\* negative, whose element type is Z, B or outside the table, or whose
\* count is cut short; a Z item with no terminator.
AuxTails(big) ==
    { << >>,
      << Ch.X, Ch.Y, Ch.q, 1 >>,
      << Ch.X, Ch.Y, 0, 1 >>,
      << Ch.X, Ch.Y, Ch.q >>,
      << Ch.X, Ch.Y >>,
      << Ch.X, Ch.B, Ch.B, Ch.c >> \o PutUint32(big, -8),
      << Ch.X, Ch.B, Ch.B, Ch.c >> \o PutUint32(big, -9),
      << Ch.X, Ch.B, Ch.B, Ch.Z >> \o PutUint32(big, 8),
      << Ch.X, Ch.B, Ch.B, Ch.B >> \o PutUint32(big, 1),
      << Ch.X, Ch.B, Ch.B, Ch.q >> \o PutUint32(big, 3),
      << Ch.X, Ch.B, Ch.B, Ch.c, 1 >>,
      << Ch.X, Ch.Z, Ch.Z, Ch.a >> }

\* The values the loop variable i of parseAux takes at the head of each
\* turn, up to the turn that returns or panics, or to the first turn that
\* leaves i where it was.
RECURSIVE parseAuxPositions(_, _, _, _)
parseAuxPositions(big, aux, i, ps) ==
    IF ~(i + 2 < Len(aux)) THEN Append(ps, i)
    ELSE LET st == parseAuxAt(big, aux, i)
         IN  IF st.kind = "panic" THEN Append(ps, i)
             ELSE IF st.next = i THEN Append(Append(ps, i), i)
             ELSE parseAuxPositions(big, aux, st.next, Append(ps, i))

InitParse ==
    /\ MainIdle
    /\ bigEndian \in BOOLEAN
    /\ pin \in [ items : SeqsUpTo(AuxItems(bigEndian), MaxAuxItems),
                 tail : AuxTails(bigEndian) ]
    /\ pout = NotRun

\* parseAux on the block made of pin.items followed by pin.tail.
ParseCall ==
    /\ ~pout.done
    /\ LET aux == Concat(pin.items) \o pin.tail
           p == parseAux(bigEndian, aux)
       IN  pout' = [ done |-> TRUE,
                     v |-> [ kind |-> p.kind, aa |-> p.aa,
                             spans |-> parseAuxSpans(bigEndian, aux, 0, << >>),
                             positions |-> parseAuxPositions(bigEndian, aux, 0, << >>) ] ]
    /\ UNCHANGED << bigEndian, mainVars, pin >>

SpecParse == InitParse /\ [][ParseCall]_vars

----------------------------------------------------------------------------
(* A fetch whose visitor writes each record it is handed.                  *)

\* The *Record BAMFile.Fetch's closure hands to fn: &Record{bamRecord: b},
\* the other fields zero.
fetchRecord(b) == [ ZeroRecord EXCEPT !.ref = "ok", !.b = b ]

\* A turn of bamFetch's loop with a visitor fn that passes its record, as
\* it got it, to Write and then returns done.
FetchVisit ==
    /\ ~panicked
    /\ fetch.pc = "loop"
    /\ UNCHANGED << bigEndian, fp, fpBam, finalizer, closes, stream, panicked,
                    pin, pout >>
    /\ \E allocated \in BOOLEAN, done \in BOOLEAN :
         /\ fetch' = fetchTurn(fetch, allocated, done)
         /\ IF allocated /\ fetch.iter # << >>
            THEN LET b == stream[Head(fetch.iter)]
                     m == remarshal(bigEndian, fetchRecord(b))
                 IN  /\ rpos' = Head(fetch.iter)
                     /\ rec' = m.r
                     /\ hist' = [ origin |-> "fetch", mutated |-> FALSE, raw |-> b ]
                     /\ res' = [ Result("Write", "nil", recordBytes(m.r.b), fp, m.called)
                                 EXCEPT !.emitted = << emitted(m.r.b) >>,
                                        !.flag = fetchRecord(b).marshalled ]
            ELSE /\ UNCHANGED << rpos, rec, hist >>
                 /\ res' = Result("Fetch", fetch'.err, fetch'.ret, fp, FALSE)

\* A caller that reads and writes back, and fetches with a writing visitor.
NextVisit ==
    \/ Read
    \/ Write
    \/ FetchCall
    \/ FetchVisit

SpecVisit == Init /\ [][NextVisit]_vars

----------------------------------------------------------------------------
(* The header accessors of BAMFile on open and closed handles.             *)

\* bam_header_t as the samtools library fills it: the target names and
\* lengths in order, and the header text.
Headers ==
    { [ names |-> << >>, lens |-> << >>, text |-> "" ],
      [ names |-> << "chr1" >>, lens |-> << 10 >>, text |-> "@SQ chr1" ],
      [ names |-> << "chr1", "chr2" >>, lens |-> << 10, 20 >>,
        text |-> "@SQ chr1 @SQ chr2" ],
      [ names |-> << "chr2", "chr1" >>, lens |-> << 20, 10 >>,
        text |-> "@SQ chr2 @SQ chr1" ] }

HeaderCalls ==
    [ op : { "Targets", "RefNames", "RefLengths", "Text" }, name : { "" } ]
    \cup [ op : { "RefID" }, name : { "chr1", "chr2", "chrX", "" } ]

\* bam_get_tid of the samtools library: the 0-based index of the target
\* called name, or -1.
bam_get_tid(h, name) ==
    LET hits == { k \in 1..Len(h.names) : h.names[k] = name }
    IN  IF hits = {} THEN -1 ELSE (CHOOSE k \in hits : TRUE) - 1

\* samFile.header: nil when sf.fp is nil, else a bamHeader around
\* sf.fp.header.
samHeader(fpState, h) ==
    IF fpState = "nil" THEN [ isNil |-> TRUE, bh |-> h ]
    ELSE [ isNil |-> FALSE, bh |-> h ]

\* The header accessor call on a handle whose sf.fp is fpState and whose
\* stream carries the header h: the value returned, or a panic.  bh.bh on a
\* nil *bamHeader is a nil dereference.
headerCall(fpState, h, call) ==
    LET hd == samHeader(fpState, h)
        Val(v) == [ kind |-> "value", v |-> v ]
    IN  IF call.op = "RefID"
        THEN IF hd.isNil THEN [ kind |-> "nilDeref", v |-> << >> ]
             ELSE LET id == bam_get_tid(hd.bh, call.name)
                  IN  Val([ id |-> id, ok |-> ~(id < 0) ])
        ELSE IF call.op = "Targets"
        THEN Val(IF hd.isNil THEN -1 ELSE Len(hd.bh.names))
        ELSE IF call.op = "RefNames"
        THEN IF hd.isNil THEN Val([ isNil |-> TRUE, s |-> << >> ])
             ELSE Val([ isNil |-> FALSE, s |-> hd.bh.names ])
        ELSE IF call.op = "RefLengths"
        THEN IF hd.isNil THEN Val([ isNil |-> TRUE, s |-> << >> ])
             ELSE Val([ isNil |-> FALSE, s |-> hd.bh.lens ])
        ELSE Val(IF hd.isNil THEN "" ELSE hd.bh.text)

InitHeader ==
    /\ MainIdle
    /\ bigEndian = FALSE
    /\ pin \in [ fp : { "open", "nil" }, h : Headers, call : HeaderCalls ]
    /\ pout = NotRun

\* Targets, RefNames, RefLengths, Text or RefID on the handle.
HeaderCall ==
    /\ ~pout.done
    /\ pout' = [ done |-> TRUE, v |-> headerCall(pin.fp, pin.h, pin.call) ]
    /\ UNCHANGED << bigEndian, mainVars, pin >>

SpecHeader == InitHeader /\ [][HeaderCall]_vars

----------------------------------------------------------------------------
(* Properties.                                                             *)

\* The Record a caller gets by wrapping the bam1_t b anew, nothing decoded.
Rewrapped(b) == [ ZeroRecord EXCEPT !.ref = "ok", !.b = b ]

\* C1: for every record whose structured fields are a name, a CIGAR list, a
\* sequence over the 16 symbols, a quality list as long as the sequence,
\* and well-formed aux items, marshalData followed by unmarshalData of the
\* payload it installed gives back the same name, CIGAR, sequence,
\* qualities and aux items.
C1_MarshalUnmarshalRoundTrip ==
    ( /\ rec.ref = "ok"
      /\ hist.origin \in { "new", "read" }
      /\ Len(rec.seqBytes) > 0
      /\ Len(rec.qualScores) = Len(rec.seqBytes)
      /\ \A k \in 1..Len(rec.seqBytes) : rec.seqBytes[k] \in Symbols
      /\ parseAux(bigEndian, rec.auxBytes).kind = "ok" )
    => LET installed == setDataUnsafe(marshalCore(rec.b, rec),
                                      marshalBytes(bigEndian, rec))
           u == unmarshalData(bigEndian, Rewrapped(installed))
       IN  /\ u.kind = "ok"
           /\ u.r.nameStr = rec.nameStr
           /\ u.r.cigar = rec.cigar
           /\ u.r.seqBytes = rec.seqBytes
           /\ u.r.qualScores = rec.qualScores
           /\ u.r.auxTags = parseAux(bigEndian, rec.auxBytes).aa

\* C2: for every well-formed aux block, buildAux(parseAux(block)) is the
\* block, byte for byte.
C2_BuildParseAuxIsIdentity ==
    pout.done => pout.v.kind = "ok" /\ pout.v.built = pin

\* C3: Flags.String returns 11 characters; position k holds the k-th letter
\* of "pPuUrR12sfd" when bit k is set and '-' when it is not; and when the
\* paired bit is unset, the positions of ProperPair, MateUnmapped,
\* MateReverse, Read1 and Read2 hold '-' whatever their bits.
C3_FlagsString ==
    pout.done =>
        LET letters == << "p", "P", "u", "U", "r", "R", "1", "2", "s", "f", "d" >>
            pairOnly == { 1, 3, 5, 6, 7 }
            shown(k) == /\ (pin \div (2 ^ k)) % 2 = 1
                        /\ ~(pin % 2 = 0 /\ k \in pairOnly)
        IN  /\ Len(pout.v) = 11
            /\ \A k \in 0..10 :
                 pout.v[k + 1] = IF shown(k) THEN letters[k + 1] ELSE "-"

\* C3 witness: the paired bit unset, the mate-unmapped and reverse bits set:
\* position 3 is masked to '-', position 4 shows 'r'.
C3_Witness ==
    /\ pout.done
    /\ pin % 2 = 0
    /\ (pin \div 8) % 2 = 1
    /\ (pin \div 16) % 2 = 1
    /\ pout.v[4] = "-"
    /\ pout.v[5] = "r"

\* The nybble unmarshalData reads for position k (from 1) of the packed
\* bytes sn.
NybbleAt(sn, k) ==
    IF k % 2 = 1 THEN sn[(k + 1) \div 2] \div 16 ELSE sn[k \div 2] % 16

\* C4 as stated: a sequence over the 16 symbols comes back unchanged from
\* the nybble codec, and every byte that is not one of the 16 symbols
\* encodes to 0xf and decodes to 'N'.
C4_NybbleRoundTripAsStated ==
    pout.done =>
        /\ (\A k \in 1..Len(pin) : pin[k] \in Symbols) => pout.v.seq = pin
        /\ \A k \in 1..Len(pin) :
             pin[k] \notin Symbols =>
                 NybbleAt(pout.v.sn, k) = 15 /\ pout.v.seq[k] = Ch.N

\* The lower-case forms of the 15 letters among the symbols.
LowerCaseSymbols == { c + 32 : c \in Symbols \ { Ch.eq } }

\* The digits '0' to '3'.
BaseDigits == { Ch.zero + d : d \in 0..3 }

\* C4 amended: a sequence over the 16 symbols comes back unchanged; a lower
\* case letter comes back as its upper-case symbol; '0', '1', '2', '3' come
\* back as 'A', 'C', 'G', 'T'; every other byte encodes to 0xf and decodes
\* to 'N'.
C4_NybbleRoundTrip ==
    pout.done =>
        /\ Len(pout.v.seq) = Len(pin)
        /\ Len(pout.v.sn) = (Len(pin) + 1) \div 2
        /\ (\A k \in 1..Len(pin) : pin[k] \in Symbols) => pout.v.seq = pin
        /\ \A k \in 1..Len(pin) :
             LET c == pin[k]
             IN  IF c \in Symbols THEN pout.v.seq[k] = c
                 ELSE IF c \in LowerCaseSymbols THEN pout.v.seq[k] = c - 32
                 ELSE IF c \in BaseDigits
                 THEN pout.v.seq[k] = << Ch.A, Ch.C, Ch.G, Ch.T >>[c - Ch.zero + 1]
                 ELSE NybbleAt(pout.v.sn, k) = 15 /\ pout.v.seq[k] = Ch.N

\* C4 witness: three bytes, two different symbols and a byte outside the
\* table between them; the symbols come back, the stranger comes back 'N'.
C4_Witness ==
    /\ pout.done
    /\ Len(pin) = 3
    /\ pin[1] = Ch.A /\ pin[2] = Ch.X /\ pin[3] = Ch.star
    /\ pout.v.seq = << Ch.A, Ch.N, Ch.N >>
    /\ pout.v.sn = << 31, 240 >>

\* C5: Record.End returns the start position plus the summed lengths of
\* the CIGAR operations of type match, sequence-match and
\* sequence-mismatch.
C5_EndCountsMatchEqualMismatch ==
    (res.op = "End" /\ res.err = "nil") =>
        res.n = rec.b.pos
                + sumRuns(rec.cigar, { CigarMatch, CigarEqual, CigarMismatch })

\* A fetch that created its iterator and ran to the iterator's end.
FetchRanToEnd ==
    /\ fetch.pc = "idle"
    /\ fetch.created = 1
    /\ ~fetch.stopped
    /\ ~fetch.allocFailed

\* The stream positions a fetch must visit: the records on the reference
\* fetch.tid whose span [pos, end) meets [fetch.beg, fetch.end).
FetchSelected ==
    { k \in 1..Len(stream) :
        /\ stream[k].tid = fetch.tid
        /\ overlaps(bigEndian, stream[k], fetch.beg, fetch.end) }

\* C6: a fetch whose visitor never asks to stop visits, in stream order and
\* once each, exactly the records on the queried reference whose span meets
\* [beg, end); with beg = end it visits nothing and returns no error.
C6_FetchSelection ==
    FetchRanToEnd =>
        /\ \A k \in 1..Len(stream) :
             Cardinality({ j \in 1..Len(fetch.visited) : fetch.visited[j] = k })
               = IF k \in FetchSelected THEN 1 ELSE 0
        /\ \A j \in 1..Len(fetch.visited) : fetch.visited[j] \in 1..Len(stream)
        /\ \A i, j \in 1..Len(fetch.visited) :
             i < j => fetch.visited[i] < fetch.visited[j]
        /\ fetch.beg = fetch.end => fetch.visited = << >> /\ fetch.err = "nil"
        /\ fetch.destroyed = 1

\* C6 witness: a fetch over [2, 3) of reference 0 on the four-record stream
\* ran to the end and visited the first two records, leaving out the third
\* (same reference, outside the interval) and the fourth (other reference).
C6_Witness ==
    /\ FetchRanToEnd
    /\ Len(stream) = 4
    /\ fetch.tid = 0 /\ fetch.beg = 2 /\ fetch.end = 3
    /\ fetch.visited = << 1, 2 >>

\* C7: the integer Fetch returns with a nil error is the number of records
\* the visitor was called on.
C7_FetchReturnsVisitCount ==
    (fetch.pc = "idle" /\ fetch.created = 1 /\ fetch.err = "nil") =>
        fetch.ret = Len(fetch.visited)

\* C8: Close returns nil on a closed handle and on a handle with no stream,
\* as it does on an open one.
C8_CloseIsIdempotent ==
    res.op = "Close" => res.err = "nil"

\* C9: a record that was read and not mutated is written with its native
\* payload untouched and without a call of marshalData; Write calls
\* marshalData only when the marshalled flag is false.
C9_UnmutatedWriteThrough ==
    /\ (res.op = "Write" /\ res.err = "nil" /\ hist.origin = "read" /\ ~hist.mutated)
       => /\ ~res.marshal
          /\ res.emitted = << emitted(hist.raw) >>
          /\ rec.b = hist.raw
    /\ (res.op = "Write" /\ res.marshal) => ~res.flag

\* C9 witness: a record was read, decoded by an accessor, and written back
\* as it came.
C9_Witness ==
    /\ res.op = "Write" /\ res.err = "nil"
    /\ hist.origin = "read" /\ ~hist.mutated
    /\ rec.unmarshalled
    /\ Len(rec.seqBytes) > 1
    /\ ~res.marshal
    /\ res.emitted = << emitted(hist.raw) >>

\* C10 as stated: SetSeq, SetQuality and SetFlags each leave the marshalled
\* flag false.
C10_MutatorsInvalidateAsStated ==
    (res.op \in { "SetSeq", "SetQuality", "SetFlags" } /\ res.err = "nil")
        => ~rec.marshalled

\* C10 amended: SetSeq and SetQuality leave the marshalled flag false;
\* SetFlags writes the flag word to the native core and leaves the
\* marshalled flag as it was; a Write that finds the flag false calls
\* marshalData, installs the bytes at the start of the native buffer with
\* the lengths in the core, and leaves the flag true.
C10_MutatorsInvalidate ==
    /\ (res.op \in { "SetSeq", "SetQuality" } /\ res.err = "nil") => ~rec.marshalled
    /\ (res.op = "SetFlags" /\ res.err = "nil") => rec.marshalled = res.flag
    /\ (res.op = "Write" /\ res.err # "panic" /\ ~res.flag)
       => LET d == marshalBytes(bigEndian, rec)
          IN  /\ res.marshal
              /\ rec.marshalled
              /\ Slice(rec.b.data, 0, Len(d)) = d
              /\ rec.b.l_qseq = Len(rec.seqBytes)
              /\ rec.b.l_qname = Len(rec.nameStr) + 1
              /\ rec.b.n_cigar = Len(rec.cigar)
              /\ rec.b.l_aux = Len(rec.auxBytes)
    /\ (res.op = "Write" /\ res.err = "nil") => res.emitted = << emitted(rec.b) >>

\* C10 witness: a record was read, decoded, given a new sequence, and
\* written: the Write found the flag false, marshalled, and left it true.
C10_Witness ==
    /\ res.op = "Write" /\ res.err = "nil"
    /\ hist.origin = "read" /\ hist.mutated
    /\ rec.unmarshalled
    /\ rec.seqBytes \in SetSeqInputs
    /\ ~res.flag /\ res.marshal /\ rec.marshalled

\* C11: Read returns io.EOF exactly when the stream is exhausted; when the
\* read fails for another reason the error is not io.EOF (and is an
\* error); when a record is read the error is nil.  Stated for the calls
\* that leave no errno behind.
C11_EndOfStreamIsDistinct ==
    (pout.done /\ pin.fp = "open" /\ pin.allocated /\ ~pin.out.errno) =>
        /\ pout.v.err = "EOF" <=> pin.out.kind = "exhausted"
        /\ pin.out.kind = "broken" => pout.v.err \notin { "EOF", "nil" }
        /\ pin.out.kind = "record" => pout.v.err = "nil"

\* C12: a Fetch on a handle whose stream is nil, or with an index whose
\* pointer is nil, returns (0, valueIsNil); a Fetch on an open handle that
\* is not in BAM mode returns (0, notBamFile); in both cases no iterator is
\* created and the visitor is never called.
C12_FetchPreconditionErrors ==
    (res.op \in { "Fetch", "FetchCall", "FetchIter" } /\ res.err # "panic") =>
        LET nilCase == res.pre = "nil" \/ fetch.idx = "nil"
            notBam == ~nilCase /\ ~fpBam
            refused(e) == /\ res.op = "Fetch"
                          /\ res.err = e /\ res.n = 0
                          /\ fetch.err = e /\ fetch.ret = 0
                          /\ fetch.created = 0
                          /\ fetch.visited = << >>
                          /\ fetch.pc = "idle"
        IN  /\ nilCase => refused("valueIsNil")
            /\ notBam => refused("notBamFile")
            /\ (fetch.created > 0 \/ fetch.visited # << >>) => ~nilCase /\ ~notBam

\* C12 witness: a Fetch with a nil index on an open BAM handle over a
\* stream with records: refused with valueIsNil, nothing created or visited.
C12_Witness ==
    /\ res.op = "Fetch" /\ res.pre = "open" /\ fpBam
    /\ Len(stream) > 0
    /\ fetch.idx = "nil"
    /\ res.err = "valueIsNil" /\ res.n = 0
    /\ fetch.created = 0 /\ fetch.visited = << >>

\* C13: once the visitor returns done = true, Fetch calls it on no further
\* record, reads no further record from the iterator, and returns; the
\* records visited are a prefix, in stream order, of those a visitor that
\* never stops would have seen.
C13_FetchEarlyStop ==
    LET all == bamIterQuery(bigEndian, stream, fetch.tid, fetch.beg, fetch.end)
    IN  /\ fetch.created = 1 => fetch.visited \o fetch.iter = all
        /\ fetch.stopped =>
             /\ fetch.pc = "idle"
             /\ fetch.created = 1
             /\ fetch.destroyed = 1
             /\ Len(fetch.visited) >= 1
             /\ fetch.visited = SubSeq(all, 1, Len(fetch.visited))

\* C13 witness: the visitor stopped the fetch on the first of several
\* selected records; the rest were left unread.
C13_Witness ==
    /\ fetch.stopped
    /\ fetch.pc = "idle"
    /\ Len(fetch.visited) = 1
    /\ Len(fetch.iter) >= 2

\* C14: on every record reached by Read followed by SetSeq, SetQuality and
\* Write calls, when a sequence and qualities are both present Seq()
\* returns as many symbols as Quality() returns scores, and a marshalled
\* payload carries exactly l_qseq quality bytes.
C14_SeqQualSameLength ==
    (hist.origin = "read" /\ rec.ref = "ok") =>
        LET u == unmarshalData(bigEndian, rec)
        IN  /\ (u.kind = "ok" /\ u.r.seqBytes # << >> /\ u.r.qualScores # << >>)
               => Len(u.r.seqBytes) = Len(u.r.qualScores)
            /\ (res.op = "Write" /\ res.marshal /\ res.err # "panic")
               => Len(rec.qualScores) = rec.b.l_qseq

\* The caller's record has no backing payload: no bamRecord, no bam1_t, or
\* a bam1_t whose data pointer is NULL.
NoPayload ==
    \/ rec.ref \in { "nobr", "nob" }
    \/ rec.ref = "ok" /\ rec.b.data = << >> /\ rec.b.data_len = 0

\* C15: an accessor's unmarshalData on a record with no backing payload
\* (an uninitialized record) does not panic, leaves name, CIGAR, sequence,
\* qualities and aux empty, and leaves the unmarshalled flag false.
C15_DecodeOfAbsentPayloadIsNoOp ==
    (res.op = "Accessor" /\ ~hist.mutated /\ NoPayload) =>
        /\ res.err # "panic"
        /\ rec.nameStr = << >> /\ rec.cigar = << >>
        /\ rec.seqBytes = << >> /\ rec.qualScores = << >>
        /\ rec.auxBytes = << >> /\ rec.auxTags = << >>
        /\ ~rec.unmarshalled

\* C16: every field accessor (RefID, Start, Len, End, Score, Flags, Strand,
\* NextRefID, NextStart, Name, Seq, Quality, Cigar, Tags) of a record whose
\* underlying record pointer is nil panics with valueIsNil.
C16_AccessorsPanicOnNilRecord ==
    (pout.done /\ pin.r.ref \in { "nobr", "nob" }) => pout.v = "valueIsNil"

\* C17: Record.Tag(tag) returns (a, true) with a the first item, in payload
\* order, whose 2-byte label equals the first two bytes of tag, and
\* (nil, false) exactly when no item has that label.
C17_TagReturnsFirstMatch ==
    pout.done =>
        LET aa == parseAux(bigEndian, pin.aux).aa
            want == SubSeq(pin.tag, 1, 2)
            hits == { k \in 1..Len(aa) : SubSeq(aa[k], 1, 2) = want }
        IN  /\ pout.v.ok <=> hits # {}
            /\ hits # {} =>
                 \E k \in hits : /\ \A m \in hits : k <= m
                                 /\ pout.v.v = aa[k]
            /\ hits = {} => pout.v.v = << >>

\* C18: Aux.Value decodes the bytes after the 2-byte label and the type
\* byte: for c/C the 1-byte integer at offset 3, for s/S the 16-bit integer
\* at offsets 3..4, for i/I the 32-bit integer at offsets 3..6 (package
\* byte order), for Z the text after the type byte, for H the bytes its hex
\* digits spell, for B exactly count elements of the element type taken
\* from the bytes after the 4-byte count.
C18_AuxValueDecodesPayload ==
    pout.done =>
        LET a == parseAux(bigEndian, pin.aux).aa[pin.k]
            t == a[3]
            by(from, to) == SubSeq(a, from + 1, to + 1)
            w16(b) == IF bigEndian THEN b[1] * 256 + b[2] ELSE b[2] * 256 + b[1]
            s16(b) == IF w16(b) >= 32768 THEN w16(b) - 65536 ELSE w16(b)
            s8(x) == IF x >= 128 THEN x - 256 ELSE x
            count == Uint32(bigEndian, by(4, 7))
            elems(width, conv(_)) ==
                [ j \in 1..count |->
                    conv(by(8 + width * (j - 1), 8 + width * j - 1)) ]
            w32(b) == Uint32(bigEndian, b)
            b1(b) == b[1]
            sb1(b) == s8(b[1])
        IN  /\ pout.v.kind # "panic"
            /\ t = Ch.c => pout.v.v = s8(a[4])
            /\ t = Ch.C => pout.v.v = a[4]
            /\ t = Ch.s => pout.v.v = s16(by(3, 4))
            /\ t = Ch.S => pout.v.v = w16(by(3, 4))
            /\ t \in { Ch.i, Ch.I } => pout.v.v = w32(by(3, 6))
            /\ t = Ch.Z => pout.v.v = by(3, Len(a) - 1)
            /\ t = Ch.H =>
                 pout.v.v = [ j \in 1..((Len(a) - 3) \div 2) |->
                                fromHexChar(a[2 * j + 2]) * 16
                                + fromHexChar(a[2 * j + 3]) ]
            /\ t = Ch.B =>
                 pout.v.v = IF a[4] = Ch.c THEN elems(1, sb1)
                            ELSE IF a[4] = Ch.C THEN elems(1, b1)
                            ELSE IF a[4] = Ch.s THEN elems(2, s16)
                            ELSE IF a[4] = Ch.S THEN elems(2, w16)
                            ELSE elems(4, w32)

\* C19: the payload of a record is decoded by the first read accessor
\* only: once the unmarshalled flag is true, no accessor re-reads the
\* payload or changes the cached name, CIGAR, sequence, qualities or aux
\* items, and no operation on the record resets the flag.
C19_DecodeAtMostOnce ==
    [][ /\ (rec.unmarshalled /\ res'.op \notin { "Read", "NewRecord" })
           => /\ rec'.unmarshalled
              /\ res'.op \in { "Accessor", "End" } => rec' = rec
        /\ (res'.op \in { "Accessor", "End" } /\ res'.err = "nil" /\ rec.ref = "ok")
           => rec'.unmarshalled ]_vars

\* C19 witness: a record was read and decoded, its sequence replaced, and
\* an accessor called again: the replaced sequence is still cached, not the
\* payload's.
C19_Witness ==
    /\ res.op = "Accessor" /\ res.err = "nil"
    /\ hist.origin = "read" /\ hist.mutated
    /\ rec.unmarshalled
    /\ rec.seqBytes \in SetSeqInputs
    /\ Len(rec.qualScores) = rec.b.l_qseq
    /\ Len(rec.seqBytes) # rec.b.l_qseq

\* C20: after marshalData the core says l_qname = len(name) + 1, n_cigar =
\* the number of CIGAR operations, l_qseq = the number of sequence symbols,
\* l_aux = len(aux bytes), and the payload returned is l_qname + 4*n_cigar
\* + ceil(l_qseq/2) + l_qseq + l_aux bytes long, laid out as name and nul,
\* CIGAR words, packed sequence, qualities, aux.
C20_MarshalKeepsCoreConsistent ==
    (res.op = "Write" /\ res.marshal /\ res.err # "panic") =>
        LET d == marshalBytes(bigEndian, rec)
            b == rec.b
            o1 == b.l_qname
            o2 == o1 + 4 * b.n_cigar
            o3 == o2 + (b.l_qseq + 1) \div 2
            o4 == o3 + b.l_qseq
            o5 == o4 + b.l_aux
        IN  /\ b.l_qname = Len(rec.nameStr) + 1
            /\ b.n_cigar = Len(rec.cigar)
            /\ b.l_qseq = Len(rec.seqBytes)
            /\ b.l_aux = Len(rec.auxBytes)
            /\ Len(d) = o5
            /\ SubSeq(d, 1, o1) = Append(rec.nameStr, 0)
            /\ SubSeq(d, o1 + 1, o2)
                 = Concat([ k \in 1..Len(rec.cigar) |-> PutUint32(bigEndian, rec.cigar[k]) ])
            /\ SubSeq(d, o2 + 1, o3) = encodeNybbles(rec.seqBytes)
            /\ SubSeq(d, o3 + 1, o4) = rec.qualScores
            /\ SubSeq(d, o4 + 1, o5) = rec.auxBytes

\* The offset at which item k of items starts in their concatenation.
RECURSIVE ItemStart(_, _)
ItemStart(items, k) ==
    IF k = 1 THEN 0 ELSE ItemStart(items, k - 1) + Len(items[k - 1])

\* The width of the elements of a B item, and of the payload of a fixed
\* item, by type byte.
TypeWidth(t) ==
    IF t \in { Ch.A, Ch.c, Ch.C } THEN 1
    ELSE IF t \in { Ch.s, Ch.S } THEN 2
    ELSE 4

\* C21: on a block of well-formed items parseAux returns one item per item
\* of the block, in the block's order; an A/c/C item spans 3+1 bytes, s/S
\* 3+2, i/I/f 3+4; a Z or H item runs up to and not including its nul
\* terminator and the scan resumes just after the terminator; a B item
\* spans 3 + 5 + count * element width bytes; the spans are disjoint and,
\* with the Z/H terminators, cover the block.
C21_ParseSpans ==
    (pout.done /\ pin.tail = << >>) =>
        LET items == pin.items
            aux == Concat(items)
            sp == pout.v.spans
            nul(k) == IF k \in 1..Len(sp) /\ aux[sp[k].s + 3] \in { Ch.Z, Ch.H }
                      THEN 1 ELSE 0
        IN  /\ pout.v.kind = "ok"
            /\ Len(pout.v.aa) = Len(items)
            /\ Len(sp) = Len(items)
            /\ \A k \in 1..Len(sp) :
                 LET t == aux[sp[k].s + 3]
                 IN  /\ sp[k].s = ItemStart(items, k)
                     /\ pout.v.aa[k] = SubSeq(aux, sp[k].s + 1, sp[k].s + sp[k].n)
                     /\ t \in { Ch.A, Ch.c, Ch.C } => sp[k].n = 3 + 1
                     /\ t \in { Ch.s, Ch.S } => sp[k].n = 3 + 2
                     /\ t \in { Ch.i, Ch.I, Ch.f } => sp[k].n = 3 + 4
                     /\ t \in { Ch.Z, Ch.H } =>
                          /\ sp[k].s + sp[k].n < Len(aux)
                          /\ \A j \in 1..sp[k].n : aux[sp[k].s + j] # 0
                          /\ aux[sp[k].s + sp[k].n + 1] = 0
                     /\ t = Ch.B =>
                          sp[k].n = 3 + 5
                                    + Uint32(bigEndian, SubSeq(aux, sp[k].s + 5, sp[k].s + 8))
                                      * TypeWidth(aux[sp[k].s + 4])
                     /\ k < Len(sp) => sp[k + 1].s = sp[k].s + sp[k].n + nul(k)
            /\ Len(sp) = 0 => Len(aux) = 0
            /\ Len(sp) > 0 =>
                 sp[Len(sp)].s + sp[Len(sp)].n + nul(Len(sp)) = Len(aux)

\* C21 witness: a block of a Z item and a B item of two elements: the Z
\* span stops before its terminator, the B span starts after it.
C21_Witness ==
    /\ pout.done /\ pin.tail = << >>
    /\ Len(pin.items) = 2
    /\ pin.items[1][3] = Ch.Z /\ Len(pin.items[1]) = 6
    /\ pin.items[2][3] = Ch.B /\ pin.items[2][4] = Ch.c
    /\ pout.v.spans = << [ s |-> 0, n |-> 5 ], [ s |-> 6, n |-> 10 ] >>

\* The type bytes parseAux knows.
KnownAuxTypes ==
    { Ch.A, Ch.c, Ch.C, Ch.s, Ch.S, Ch.i, Ch.I, Ch.f, Ch.Z, Ch.H, Ch.B }

\* C22: when the scan, having passed the well-formed items of a block,
\* reaches an item whose type byte is none of A, c, C, s, S, i, I, f, Z, H,
\* B, parseAux panics: it neither skips the item nor returns the items cut
\* so far.
C22_UnknownAuxTypeIsFatal ==
    (pout.done /\ Len(pin.tail) >= 3 /\ pin.tail[3] \notin KnownAuxTypes) =>
        /\ pout.v.kind = "panic"
        /\ pout.v.positions[Len(pout.v.positions)] = Len(Concat(pin.items))

\* C22 witness: two well-formed items followed by an item of type 'q': the
\* scan cut the two items and panicked at the third.
C22_Witness ==
    /\ pout.done
    /\ Len(pin.items) = 2
    /\ pin.tail = << Ch.X, Ch.Y, Ch.q, 1 >>
    /\ Len(pout.v.spans) = 2
    /\ pout.v.kind = "panic"

\* C27: on every aux block, well-formed or not, the scan position of
\* parseAux grows at every turn, and parseAux returns or panics.
C27_ParseAuxTerminates ==
    pout.done =>
        /\ pout.v.kind \in { "ok", "panic" }
        /\ \A k \in 1..(Len(pout.v.positions) - 1) :
             pout.v.positions[k] < pout.v.positions[k + 1]

\* C23: on a record obtained from Read, decoded or not, the accessor call
\* that follows SetSeq(s) finds s as the sequence, and the accessor call
\* that follows SetQuality(q) finds q as the qualities: the decode does
\* not put the old payload's value back.
C23_SetThenGet ==
    [][ (hist.origin = "read" /\ res.err = "nil"
         /\ res'.op = "Accessor" /\ res'.err = "nil")
        => /\ res.op = "SetSeq" => rec'.seqBytes = rec.seqBytes
           /\ res.op = "SetQuality" => rec'.qualScores = rec.qualScores ]_vars

\* The name, the CIGAR words and the aux block of the payload d whose
\* sections have the lengths lQname, nCigar and lAux.
PayloadFrame(d, lQname, nCigar, lAux) ==
    [ name |-> SubSeq(d, 1, lQname - 1),
      cigar |-> SubSeq(d, lQname + 1, lQname + 4 * nCigar),
      aux |-> SubSeq(d, Len(d) - lAux + 1, Len(d)) ]

\* C24: when a record obtained from Read is given a new sequence or new
\* qualities and written, whether or not an accessor was called first, the
\* payload Write builds has the name, the CIGAR words and the aux block of
\* the record as it was read.
C24_MutationKeepsOtherFields ==
    (res.op = "Write" /\ res.err = "nil" /\ res.marshal /\ hist.origin = "read") =>
        LET d == marshalBytes(bigEndian, rec)
            raw == hist.raw
        IN  PayloadFrame(d, rec.b.l_qname, rec.b.n_cigar, rec.b.l_aux)
              = PayloadFrame(dataUnsafe(raw), raw.l_qname, raw.n_cigar, raw.l_aux)

\* C25: after a Write that re-marshals, the record's data_len is the
\* length of the payload just built and its m_data is at least that, so
\* that what samwrite emits is exactly the new payload.
C25_DataLenFollowsRemarshal ==
    (res.op = "Write" /\ res.marshal /\ res.err # "panic") =>
        LET d == marshalBytes(bigEndian, rec)
        IN  /\ rec.b.data_len = Len(d)
            /\ rec.b.m_data >= Len(d)
            /\ dataUnsafe(rec.b) = d
            /\ res.err = "nil" => res.emitted[1].data = d

\* C26: a record handed to a Fetch visitor and passed unmodified to Write
\* is written with the payload bytes and the core size fields it came
\* with, as an unmodified record returned by Read is.
C26_FetchedRecordWritesThrough ==
    (res.op = "Write" /\ res.err = "nil" /\ ~hist.mutated
     /\ hist.origin \in { "read", "fetch" })
        => /\ res.emitted = << emitted(hist.raw) >>
           /\ rec.b = hist.raw

\* C29: a Fetch that created its iterator has destroyed it exactly once
\* when it returns, whether the iteration ran to its end, the visitor
\* stopped it, or a record could not be allocated in the loop; and never
\* destroys it before.
C29_FetchReleasesIterator ==
    /\ fetch.destroyed <= fetch.created
    /\ (fetch.pc = "loop") => fetch.created = 1 /\ fetch.destroyed = 0
    /\ (fetch.pc = "idle" /\ fetch.created = 1) => fetch.destroyed = 1

\* C28: over every sequence of Read, Write, Fetch and Close calls on a
\* handle, with the finalizer running at most once, samclose is called at
\* most once; once it has been called the stream pointer is nil and the
\* finalizer is cleared; and every Read, Write or Fetch on a handle whose
\* stream pointer is nil returns valueIsNil, emits nothing and creates no
\* iterator.
C28_SingleRelease ==
    /\ closes <= 1
    /\ closes = 1 => fp = "nil" /\ ~finalizer
    /\ (res.op \in { "Close", "Finalizer" } /\ res.pre = "open")
       => res.err = "nil" /\ closes = 1
    /\ (res.op \in { "Close", "Finalizer" } /\ res.pre = "nil")
       => res.err = "valueIsNil"
    /\ (res.op \in { "Read", "Write", "Fetch" } /\ res.pre = "nil")
       => /\ res.err = "valueIsNil"
          /\ res.n = 0
          /\ res.emitted = << >>
          /\ res.op = "Fetch" => fetch.created = 0

\* C28 witness: a record was read, the handle closed, and a Write of the
\* record tried on the closed handle: samclose ran once, the Write was
\* refused.
C28_Witness ==
    /\ closes = 1
    /\ fp = "nil" /\ ~finalizer
    /\ hist.origin = "read"
    /\ res.op = "Write" /\ res.pre = "nil"
    /\ res.err = "valueIsNil"

\* C30: on a closed handle Targets, RefNames, RefLengths, Text and RefID
\* return -1, nil, nil, "" and (-1, false) without panicking; on an open
\* handle RefID(name) returns (id, true) with id >= 0 the index of name
\* when the header has it, and (-1, false) when it has not.
C30_HeaderAccessorsOnClosedHandle ==
    pout.done =>
        LET op == pin.call.op
            r == pout.v
            nilSlice == [ isNil |-> TRUE, s |-> << >> ]
            known == \E k \in 1..Len(pin.h.names) : pin.h.names[k] = pin.call.name
        IN  /\ r.kind = "value"
            /\ pin.fp = "nil" =>
                 /\ op = "Targets" => r.v = -1
                 /\ op \in { "RefNames", "RefLengths" } => r.v = nilSlice
                 /\ op = "Text" => r.v = ""
                 /\ op = "RefID" => r.v = [ id |-> -1, ok |-> FALSE ]
            /\ (pin.fp = "open" /\ op = "RefID") =>
                 IF known
                 THEN /\ r.v.ok /\ r.v.id >= 0
                      /\ pin.h.names[r.v.id + 1] = pin.call.name
                 ELSE r.v = [ id |-> -1, ok |-> FALSE ]

=============================================================================
